---- MODULE Spec2Model ----
(***************************************************************************)
(* Model of the two units of the repository:                               *)
(*   - src/app/api/v0-chat/route.ts : the GET and POST handlers of the     *)
(*     v0 chat proxy, one request at a time, one step per awaited SDK call *)
(*   - src/app/components/app-header.tsx : the header controller, its      *)
(*     effects, its handlers and the fetches it has in flight              *)
(* Strings that the code searches (error messages) are sequences of        *)
(* tokens, so that String.prototype.includes is a real search.             *)
(***************************************************************************)
EXTENDS Integers, Sequences, FiniteSets, TLC

\* ------------------------------------------------------------------------
\* Bounds of the model
\* ------------------------------------------------------------------------
MaxMessages == 2
MaxMounts == 1
MaxInFlight == 2

\* ------------------------------------------------------------------------
\* Values
\* ------------------------------------------------------------------------
Undefined == "<undefined>"
Null == "<null>"

Falsy(v) == v \in {Undefined, Null, ""}

\* a || b of JavaScript
OrElseNullish(a, b) == IF a \in {Undefined, Null} THEN b ELSE a

OrElse(a, b) == IF Falsy(a) THEN b ELSE a

KeyToken == "V0_API_KEY"

\* String.prototype.includes on token sequences: needle occurs contiguously
Includes(hay, needle) ==
  \E i \in 0..(Len(hay) - Len(needle)) :
     \A j \in 1..Len(needle) : hay[i + j] = needle[j]

\* ========================================================================
\* route.ts
\* ========================================================================
VARIABLES
  pc,         \* position of the running handler
  request,    \* the request being served
  env,        \* process.env.V0_API_KEY
  calls,      \* v0 SDK calls made for this request, in order
  detail,     \* the ChatDetail held across the await of findMessages
  results,    \* how each SDK call of this request settled, in order
  found,      \* messagesResponse.data as chats.findMessages returned it
  response,   \* what the handler produced
  failure     \* which failure, if any, the response reports

routeVars == <<pc, request, env, calls, detail, results, found, response, failure>>

VARIABLES
  mounted,      \* an AppHeader instance is mounted
  mounts,       \* how many instances have been mounted so far
  navigated,    \* window.location.href was assigned: the page is being left
  session, sessionLoading, statusLoading, pushState,   \* useState of the instance
  branchInput, commitMessage,                          \* useState of the instance
  selection,                    \* githubSelectionAtom
  githubConnection,             \* githubConnectionAtom
  githubConnectionInitialized,  \* githubConnectionInitializedAtom
  sessionFetches,   \* /api/auth/info requests in flight
  statusFetches,    \* /api/auth/github/status requests in flight
  pushFetches,      \* /api/github/push requests in flight
  signFetches,      \* sign-in and sign-out requests in flight
  lastOp            \* the operation that ran last, and what it was given

headerVars == <<mounted, mounts, navigated, session, sessionLoading, statusLoading,
                pushState, branchInput, commitMessage, selection, githubConnection,
                githubConnectionInitialized, sessionFetches, statusFetches,
                pushFetches, signFetches, lastOp>>

vars == <<pc, request, env, calls, detail, results, found, response, failure,
          mounted, mounts, navigated, session, sessionLoading, statusLoading,
          pushState, branchInput, commitMessage, selection, githubConnection,
          githubConnectionInitialized, sessionFetches, statusFetches,
          pushFetches, signFetches, lastOp>>

NoRequest == [method |-> "none", chatId |-> Undefined, bodyKind |-> "none",
              bodyText |-> <<>>, action |-> Undefined, message |-> Undefined,
              system |-> Undefined]
NoResponse == [kind |-> "none"]
NoDetail ==
  [id |-> Undefined, webUrl |-> Undefined, apiUrl |-> Undefined, shareable |-> FALSE,
   privacy |-> Undefined, latestVersion |-> [present |-> FALSE, content |-> Undefined,
                                             files |-> [present |-> FALSE, list |-> <<>>]],
   messages |-> [present |-> FALSE, list |-> <<>>]]

EnvValues == {Undefined, "", "key"}

\* the message of the Error thrown by getV0Client
KeyMissingMessage == <<KeyToken, " not configured. Please add it to your .env.local file.">>

GetDefaultMessage == <<"Failed to fetch chat details">>
PostDefaultMessage == <<"Failed to process chat request">>

\* what request.json() throws on a body that is not JSON: a SyntaxError
\* whose message quotes the offending text (V8: Unexpected token ..., "<text>" is not valid JSON)
BodyTexts == {<<"hello">>, <<KeyToken>>}
JsonSyntaxError(text) ==
  [isError |-> TRUE, message |-> <<"Unexpected token, ">> \o text \o <<" is not valid JSON">>]

\* destructuring a null body
DestructureError ==
  [isError |-> TRUE, message |-> <<"Cannot destructure property 'action' of 'body' as it is null.">>]

\* what an SDK call can throw: an Error carrying the service's text, or a non-Error value
SdkErrors ==
  { [isError |-> TRUE, message |-> <<"HTTP 404: chat not found">>],
    [isError |-> TRUE, message |-> <<"HTTP 401: invalid ", KeyToken>>],
    [isError |-> FALSE, message |-> <<>>] }

ChatIds == {"c1", "c2"}
\* an optional list: absent (undefined) or present
Absent == [present |-> FALSE, list |-> <<>>]
Some(l) == [present |-> TRUE, list |-> l]

SdkFile == [name |-> "a.ts", content |-> "x", extra |-> 1]

NoLatestVersion == [present |-> FALSE, content |-> Undefined, files |-> Absent]
LatestVersions ==
  {NoLatestVersion} \cup
  [present : {TRUE}, content : {Undefined, "", "code"},
   files : {Absent, Some(<<>>), Some(<<SdkFile>>)}]

\* a chat as the SDK returns it
SdkChats ==
  [id : ChatIds, webUrl : {"web"}, apiUrl : {"api"}, shareable : {TRUE},
   privacy : {"private"}, latestVersion : LatestVersions]

SdkMessage(i) == [id |-> i, role |-> "user", content |-> "hi", createdAt |-> "t", extra |-> 1]

RECURSIVE SdkMessageList(_)
SdkMessageList(n) == IF n = 0 THEN <<>> ELSE Append(SdkMessageList(n - 1), SdkMessage(n))

\* messagesResponse.data: absent, or a list
SdkMessageData == {Absent} \cup {Some(SdkMessageList(n)) : n \in 0..MaxMessages}

NoError == [isError |-> FALSE, message |-> <<>>]
\* what is read from a result that is not a chat: every field undefined
NoChat ==
  [id |-> Undefined, webUrl |-> Undefined, apiUrl |-> Undefined, shareable |-> FALSE,
   privacy |-> Undefined, latestVersion |-> NoLatestVersion]

\* how chats.create and chats.sendMessage settle: they throw, or return
\* a ReadableStream, or return the chat
Thrown(e) == [kind |-> "throw", error |-> e, chat |-> NoChat]
Streamed == [kind |-> "stream", error |-> NoError, chat |-> NoChat]
Returned(c) == [kind |-> "chat", error |-> NoError, chat |-> c]
SdkChatResults ==
  {Thrown(e) : e \in SdkErrors} \cup {Streamed} \cup {Returned(c) : c \in SdkChats}

\* result instanceof ReadableStream
IsReadableStreamNever(result) == FALSE

IsReadableStream(result) == result.kind = "stream"

\* if (!chatId || !message) of POST send
SendRejectsWithoutChatIdOnly(chatId, message) == Falsy(chatId)

SendRejects(chatId, message) == Falsy(chatId) \/ Falsy(message)

\* if (!chatId) of GET
GetRejectsNullOnly(chatId) == chatId = Null

GetRejects(chatId) == Falsy(chatId)

\* getV0Client: TRUE when it throws
getV0ClientThrows(apiKey) == Falsy(apiKey)

KeyMissingError == [isError |-> TRUE, message |-> KeyMissingMessage]

\* the catch blocks of GET and POST
CatchMessage(error, default) == IF error.isError THEN error.message ELSE default

CatchStatus(message) == IF Includes(message, <<KeyToken>>) THEN 500 ELSE 400

CaughtErrorsOnly(error, default) ==
  IF error.isError
    THEN [kind |-> "json",
          status |-> CatchStatus(CatchMessage(error, default)),
          body |-> [error |-> CatchMessage(error, default)]]
    ELSE [kind |-> "exception", status |-> 0, body |-> [error |-> default]]

Caught(error, default) ==
  [kind |-> "json",
   status |-> CatchStatus(CatchMessage(error, default)),
   body |-> [error |-> CatchMessage(error, default)]]

Json(status, body) == [kind |-> "json", status |-> status, body |-> body]

\* file.map / message.map of fetchChatDetail
MapFiles(files) ==
  IF ~files.present THEN Absent
  ELSE Some([i \in 1..Len(files.list) |->
               [name |-> files.list[i].name, content |-> files.list[i].content]])

\* messagesResponse.data?.map(...) ?? []
MapMessagesUnreduced(data) == IF ~data.present THEN <<>> ELSE data.list

MapMessages(data) ==
  IF ~data.present THEN <<>>
  ELSE [i \in 1..Len(data.list) |->
          [id |-> data.list[i].id, role |-> data.list[i].role,
           content |-> data.list[i].content, createdAt |-> data.list[i].createdAt]]

\* list || [] : an array is truthy even when empty
ListOrEmpty(opt) == IF opt.present THEN opt.list ELSE <<>>

\* the ChatDetail built from the result of chats.getById
DetailOf(chat) ==
  [id |-> chat.id, webUrl |-> chat.webUrl, apiUrl |-> chat.apiUrl,
   shareable |-> chat.shareable, privacy |-> chat.privacy,
   latestVersion |->
     IF ~chat.latestVersion.present THEN NoLatestVersion
     ELSE [present |-> TRUE, content |-> chat.latestVersion.content,
           files |-> MapFiles(chat.latestVersion.files)],
   messages |-> Absent]

\* d.latestVersion?.content and d.latestVersion?.files
LatestContent(d) == IF ~d.latestVersion.present THEN Undefined ELSE d.latestVersion.content
LatestFiles(d) == IF ~d.latestVersion.present THEN Absent ELSE d.latestVersion.files

Finish(r, f) ==
  /\ pc' = "done"
  /\ response' = r
  /\ failure' = f

\* a new request arrives; the handlers share nothing across requests
Requests ==
  [method : {"GET"}, chatId : {Null, ""} \cup ChatIds, bodyKind : {"none"},
   bodyText : {<<>>}, action : {Undefined}, message : {Undefined}, system : {Undefined}]
  \cup
  [method : {"POST"}, chatId : {Undefined}, bodyKind : {"malformed"},
   bodyText : BodyTexts, action : {Undefined}, message : {Undefined}, system : {Undefined}]
  \cup
  [method : {"POST"}, chatId : {Undefined}, bodyKind : {"null"},
   bodyText : {<<>>}, action : {Undefined}, message : {Undefined}, system : {Undefined}]
  \cup
  [method : {"POST"}, chatId : {Undefined, "", "c1"}, bodyKind : {"object"},
   bodyText : {<<>>}, action : {Undefined, "create", "send", "delete"},
   message : {Undefined, "", "m"}, system : {Undefined, "", "s"}]

Receive ==
  /\ pc \in {"idle", "done"}
  /\ \E r \in Requests, k \in EnvValues :
       /\ request' = r
       /\ env' = k
  /\ pc' = "start"
  /\ calls' = <<>>
  /\ results' = <<>>
  /\ found' = Absent
  /\ detail' = NoDetail
  /\ response' = NoResponse
  /\ failure' = "none"
  /\ UNCHANGED headerVars

\* GET up to its first await: validation, then fetchChatDetail up to chats.getById
GETBegin ==
  /\ pc = "start"
  /\ request.method = "GET"
  /\ IF GetRejects(request.chatId)
       THEN /\ Finish(Json(400, [error |-> <<"chatId query parameter is required">>]), "validation")
            /\ UNCHANGED calls
       ELSE IF getV0ClientThrows(env)
         THEN /\ Finish(Caught(KeyMissingError, GetDefaultMessage), "config")
              /\ UNCHANGED calls
         ELSE /\ calls' = Append(calls, [op |-> "getById", chatId |-> request.chatId])
              /\ pc' = "GET:getById"
              /\ UNCHANGED <<response, failure>>
  /\ UNCHANGED <<request, env, detail, results>>
  /\ UNCHANGED found
  /\ UNCHANGED headerVars

\* chats.getById settles inside fetchChatDetail(chatId, {includeMessages: true})
GETGetByIdSettles ==
  /\ pc = "GET:getById"
  /\ \/ \E e \in SdkErrors :
          /\ Finish(Caught(e, GetDefaultMessage), "sdk")
          /\ results' = Append(results, "throw")
          /\ UNCHANGED <<calls, detail>>
     \/ \E chat \in SdkChats :
          /\ detail' = DetailOf(chat)
          /\ results' = Append(results, "chat")
          /\ calls' = Append(calls, [op |-> "findMessages", chatId |-> request.chatId, limit |-> 50])
          /\ pc' = "GET:findMessages"
          /\ UNCHANGED <<response, failure>>
  /\ UNCHANGED <<request, env>>
  /\ UNCHANGED found
  /\ UNCHANGED headerVars

\* chats.findMessages settles; GET builds its response
GETFindMessagesSettles ==
  /\ pc = "GET:findMessages"
  /\ \/ \E e \in SdkErrors :
          /\ Finish(Caught(e, GetDefaultMessage), "sdk")
          /\ results' = Append(results, "throw")
          /\ UNCHANGED <<detail, found>>
     \/ \E data \in SdkMessageData :
          /\ results' = Append(results, "data")
          /\ found' = data
          /\ detail' = [detail EXCEPT !.messages = Some(MapMessages(data))]
          /\ Finish(Json(200, [chatId |-> detail.id, webUrl |-> detail.webUrl,
                               apiUrl |-> detail.apiUrl, shareable |-> detail.shareable,
                               privacy |-> detail.privacy,
                               messages |-> ListOrEmpty(Some(MapMessages(data)))]), "none")
  /\ UNCHANGED <<request, env, calls>>
  /\ UNCHANGED headerVars

\* POST up to its first await of the SDK: body, getV0Client, dispatch on action
POSTBegin ==
  /\ pc = "start"
  /\ request.method = "POST"
  /\ IF request.bodyKind = "malformed"
       THEN /\ Finish(Caught(JsonSyntaxError(request.bodyText), PostDefaultMessage), "body")
            /\ UNCHANGED calls
     ELSE IF request.bodyKind = "null"
       THEN /\ Finish(Caught(DestructureError, PostDefaultMessage), "body")
            /\ UNCHANGED calls
     ELSE IF getV0ClientThrows(env)
       THEN /\ Finish(Caught(KeyMissingError, PostDefaultMessage), "config")
            /\ UNCHANGED calls
     ELSE IF request.action = "create"
       THEN /\ calls' = Append(calls, [op |-> "create",
                                        message |-> OrElse(request.message, "Hello!"),
                                        system |-> OrElse(request.system, "You are a helpful coding assistant."),
                                        responseMode |-> "sync"])
            /\ pc' = "POST:create"
            /\ UNCHANGED <<response, failure>>
     ELSE IF request.action = "send"
       THEN IF SendRejects(request.chatId, request.message)
              THEN /\ Finish(Json(400, [error |-> <<"chatId and message are required for send action">>]), "validation")
                   /\ UNCHANGED calls
              ELSE /\ calls' = Append(calls, [op |-> "sendMessage", chatId |-> request.chatId,
                                               message |-> request.message, responseMode |-> "sync"])
                   /\ pc' = "POST:send"
                   /\ UNCHANGED <<response, failure>>
     ELSE /\ Finish(Json(400, [error |-> <<"Invalid action. Use \"create\" or \"send\"">>]), "validation")
          /\ UNCHANGED calls
  /\ UNCHANGED <<request, env, detail, results>>
  /\ UNCHANGED found
  /\ UNCHANGED headerVars

\* chats.create settles: throws, returns a stream, or returns the chat
POSTCreateSettles ==
  /\ pc = "POST:create"
  /\ \E r \in SdkChatResults :
       /\ results' = Append(results, r.kind)
       /\ IF r.kind = "throw"
            THEN /\ Finish(Caught(r.error, PostDefaultMessage), "sdk")
                 /\ UNCHANGED calls
          ELSE IF IsReadableStream(r)
            THEN /\ Finish(Json(400, [error |-> <<"Streaming response not supported. Please use standard chat creation.">>]), "stream")
                 /\ UNCHANGED calls
          ELSE IF getV0ClientThrows(env)
            THEN /\ Finish(Caught(KeyMissingError, PostDefaultMessage), "config")
                 /\ UNCHANGED calls
          ELSE /\ calls' = Append(calls, [op |-> "getById", chatId |-> r.chat.id])
               /\ pc' = "POST:getById"
               /\ UNCHANGED <<response, failure>>
  /\ UNCHANGED <<request, env, detail>>
  /\ UNCHANGED found
  /\ UNCHANGED headerVars

\* chats.getById settles inside fetchChatDetail(createdChat.id); POST create responds
POSTGetByIdSettles ==
  /\ pc = "POST:getById"
  /\ \/ \E e \in SdkErrors :
          /\ Finish(Caught(e, PostDefaultMessage), "sdk")
          /\ results' = Append(results, "throw")
          /\ UNCHANGED detail
     \/ \E chat \in SdkChats :
          /\ detail' = DetailOf(chat)
          /\ results' = Append(results, "chat")
          /\ Finish(Json(200, [chatId |-> chat.id, webUrl |-> chat.webUrl,
                               apiUrl |-> chat.apiUrl, shareable |-> chat.shareable,
                               privacy |-> chat.privacy,
                               message |-> "Chat created successfully",
                               response |-> OrElse(LatestContent(DetailOf(chat)), "Chat created successfully"),
                               files |-> ListOrEmpty(LatestFiles(DetailOf(chat)))]), "none")
  /\ UNCHANGED <<request, env, calls>>
  /\ UNCHANGED found
  /\ UNCHANGED headerVars

\* chats.sendMessage settles; the SDK's result is used as it is
POSTSendSettles ==
  /\ pc = "POST:send"
  /\ \E r \in SdkChatResults :
       /\ results' = Append(results, r.kind)
       /\ IF r.kind = "throw"
            THEN Finish(Caught(r.error, PostDefaultMessage), "sdk")
          ELSE IF IsReadableStream(r)
            THEN Finish(Json(400, [error |-> <<"Streaming response not supported. Please use standard message sending.">>]), "stream")
          ELSE Finish(Json(200, [success |-> TRUE,
                                 response |-> OrElse(LatestContent(r.chat), "Message sent successfully"),
                                 files |-> ListOrEmpty(LatestFiles(r.chat))]), "none")
  /\ UNCHANGED <<request, env, calls, detail>>
  /\ UNCHANGED found
  /\ UNCHANGED headerVars

RouteNext ==
  \/ Receive
  \/ GETBegin
  \/ GETGetByIdSettles
  \/ GETFindMessagesSettles
  \/ POSTBegin
  \/ POSTCreateSettles
  \/ POSTGetByIdSettles
  \/ POSTSendSettles

\* ========================================================================
\* app-header.tsx
\* ========================================================================
Owners == {"acme"}
Repos == {"shop"}
Branches == {"main", "dev"}
CommitTexts == {""}
DefaultCommitMessage == "Sync from Shopify Data Generator"

NullSelection == [isNull |-> TRUE, owner |-> "", repo |-> "", branch |-> ""]
Sel(o, r, b) == [isNull |-> FALSE, owner |-> o, repo |-> r, branch |-> b]
Selections ==
  {NullSelection} \cup {Sel(o, r, b) : o \in Owners, r \in Repos \cup {""}, b \in Branches}

\* selection?.branch ?? "main"
selectedBranch(sel) == IF sel.isNull THEN "main" ELSE sel.branch

\* selection?.owner && selection.repo
HasOwnerAndRepo(sel) == ~sel.isNull /\ sel.owner # "" /\ sel.repo # ""

Disconnected == [connected |-> FALSE, username |-> Undefined]
\* the payloads /api/auth/github/status answers with
StatusPayloads ==
  { [connected |-> TRUE, username |-> "octo"],
    [connected |-> FALSE, username |-> Undefined] }

Idle == [status |-> "idle", message |-> Undefined]
Loading == [status |-> "loading", message |-> Undefined]

\* session is null, an object without user ("anon"), or an object with a user
HasUser(s) == s = "user"

\* requests in flight that were started by the mounted instance; those of
\* an instance that was unmounted are not followed, because all they do
\* when they settle is call the state setters of that instance
NoFetches == [cur |-> 0]
\* status requests: live = started by the current effect run (isMounted true),
\* cleaned = that run was cleaned up but the instance is still mounted,
\* orphan = the instance was unmounted (they still write the atoms)
NoStatusFetches == [live |-> 0, cleaned |-> 0, orphan |-> 0]
NoSignFetches == [signIn |-> 0, signOut |-> 0]

Op(name, arg) == [name |-> name, arg |-> arg]

HeaderAlive == mounted /\ ~navigated

\* what the JSX renders
SignOutRendered == HeaderAlive /\ ~sessionLoading /\ HasUser(session)
SignInRendered == HeaderAlive /\ ~sessionLoading /\ ~HasUser(session)
StatusRendered == HeaderAlive /\ HasUser(session) /\ ~statusLoading
RepoSelectorRendered == StatusRendered /\ githubConnection.connected
ConnectRendered == StatusRendered /\ ~githubConnection.connected
PushPanelRendered == RepoSelectorRendered /\ HasOwnerAndRepo(selection)

\* useEffect(() => setBranchInput(selectedBranch), [selectedBranch]):
\* branchInput after a commit in which the selection went from sel to sel2
\* and the handler itself left branchInput at b
BranchEffect(sel, sel2, b) ==
  IF selectedBranch(sel2) # selectedBranch(sel) THEN selectedBranch(sel2) ELSE b

\* the branch of the status effect taken when there is no session user
NoUserEffect ==
  /\ githubConnection' = Disconnected
  /\ selection' = NullSelection
  /\ statusLoading' = FALSE
  /\ githubConnectionInitialized' = TRUE

\* Mount: first render, then the three effects; under StrictMode the
\* effects run, are cleaned up, and run again, so fetchSession starts twice
Mount ==
  /\ ~mounted /\ ~navigated
  /\ mounts < MaxMounts
  /\ \E strict \in BOOLEAN :
       /\ sessionFetches' = [sessionFetches EXCEPT !.cur = IF strict THEN 2 ELSE 1]
       /\ lastOp' = Op("mount", IF strict THEN "strict" ELSE "plain")
  /\ mounted' = TRUE
  /\ mounts' = mounts + 1
  /\ session' = "null"
  /\ sessionLoading' = TRUE
  /\ pushState' = Idle
  /\ commitMessage' = DefaultCommitMessage
  /\ NoUserEffect
  /\ branchInput' = BranchEffect(selection, NullSelection, selectedBranch(selection))
  /\ UNCHANGED <<navigated, statusFetches, pushFetches, signFetches>>
  /\ UNCHANGED routeVars

\* Unmount: the effect cleanup sets isMounted to false; the instance's
\* state is gone, its requests stay in flight
Unmount ==
  /\ HeaderAlive
  /\ mounted' = FALSE
  /\ sessionFetches' = NoFetches
  /\ statusFetches' = [live |-> 0, cleaned |-> 0,
                       orphan |-> statusFetches.orphan + statusFetches.live + statusFetches.cleaned]
  /\ pushFetches' = NoFetches
  /\ session' = "null"
  /\ sessionLoading' = TRUE
  /\ statusLoading' = TRUE
  /\ pushState' = Idle
  /\ branchInput' = "main"
  /\ commitMessage' = DefaultCommitMessage
  /\ lastOp' = Op("unmount", "")
  /\ UNCHANGED <<mounts, navigated, selection, githubConnection,
                 githubConnectionInitialized, signFetches>>
  /\ UNCHANGED routeVars

SessionOutcomes == {"user", "anon", "notOk", "thrown"}

\* the session that fetchSession stores for an outcome
SessionOf(outcome) ==
  IF outcome = "user" THEN "user" ELSE IF outcome = "anon" THEN "anon" ELSE "null"

\* sessionLoading when fetchSession is over (its finally)
SessionLoadingAfterTryOnly(outcome) == outcome \in {"notOk", "thrown"}

SessionLoadingAfter(outcome) == FALSE

\* fetchSession settles in the mounted instance, then the status effect
\* runs if session?.user changed (a user object is new on every response)
SessionSettles ==
  /\ HeaderAlive
  /\ sessionFetches.cur > 0
  /\ \E outcome \in SessionOutcomes :
       /\ session' = SessionOf(outcome)
       /\ sessionLoading' = SessionLoadingAfter(outcome)
       /\ lastOp' = Op("fetchSession", outcome)
       /\ IF HasUser(SessionOf(outcome))
            THEN \* cleanup of the previous run, then loadStatus -> fetchGitHubStatus
                 /\ statusLoading' = TRUE
                 /\ statusFetches' = [statusFetches EXCEPT
                                        !.live = 1,
                                        !.cleaned = statusFetches.cleaned + statusFetches.live]
                 /\ UNCHANGED <<selection, githubConnection, githubConnectionInitialized,
                                branchInput>>
            ELSE IF HasUser(session)
              THEN /\ NoUserEffect
                   /\ statusFetches' = [statusFetches EXCEPT
                                          !.live = 0,
                                          !.cleaned = statusFetches.cleaned + statusFetches.live]
                   /\ branchInput' = BranchEffect(selection, NullSelection, branchInput)
              ELSE UNCHANGED <<selection, githubConnection, githubConnectionInitialized,
                               statusLoading, statusFetches, branchInput>>
  /\ sessionFetches' = [sessionFetches EXCEPT !.cur = sessionFetches.cur - 1]
  /\ UNCHANGED <<mounted, mounts, navigated, pushState, commitMessage,
                 pushFetches, signFetches>>
  /\ UNCHANGED routeVars

\* what /api/auth/github/status can do: answer with a payload, answer
\* non-ok, or fail
StatusOutcomes ==
  {[kind |-> "ok", data |-> d] : d \in StatusPayloads}
  \cup {[kind |-> "notOk", data |-> Disconnected], [kind |-> "thrown", data |-> Disconnected]}

\* how an outcome is named in lastOp
StatusOutcomeName(outcome) ==
  IF outcome.kind = "ok"
    THEN (IF outcome.data.connected THEN "connected" ELSE "disconnected")
    ELSE outcome.kind

\* the value fetchGitHubStatus returns
StatusReturned(outcome) == IF outcome.kind = "ok" THEN outcome.data ELSE Disconnected

\* githubConnectionAtom after fetchGitHubStatus
StatusConnection(outcome) ==
  IF outcome.kind = "ok"
    THEN [connected |-> outcome.data.connected, username |-> outcome.data.username]
    ELSE Disconnected

\* githubSelectionAtom after fetchGitHubStatus
StatusSelectionKeptOnError(sel, outcome) ==
  IF outcome.kind = "ok"
    THEN IF ~outcome.data.connected THEN NullSelection ELSE sel
    ELSE sel

StatusSelection(sel, outcome) ==
  IF outcome.kind = "ok"
    THEN IF ~outcome.data.connected THEN NullSelection ELSE sel
    ELSE NullSelection

\* githubSelectionAtom after the rest of loadStatus
LoadStatusSelection(sel, isMounted, status) ==
  IF ~isMounted THEN sel
  ELSE IF ~status.connected THEN NullSelection ELSE sel

StatusClasses == {"live", "cleaned", "orphan"}

\* a status request settles: fetchGitHubStatus from its await to its
\* finally, then the continuation of loadStatus
StatusSettles ==
  /\ ~navigated
  /\ \E cls \in StatusClasses, outcome \in StatusOutcomes :
       /\ statusFetches[cls] > 0
       /\ statusFetches' = [statusFetches EXCEPT ![cls] = statusFetches[cls] - 1]
       /\ githubConnection' = StatusConnection(outcome)
       /\ selection' = LoadStatusSelection(StatusSelection(selection, outcome),
                                           cls = "live", StatusReturned(outcome))
       /\ githubConnectionInitialized' = TRUE
       /\ IF cls = "orphan"
            THEN UNCHANGED statusLoading
            ELSE statusLoading' = FALSE
       /\ branchInput' = IF mounted
                           THEN BranchEffect(selection, selection', branchInput)
                           ELSE branchInput
       /\ lastOp' = Op("fetchGitHubStatus:" \o cls, StatusOutcomeName(outcome))
  /\ UNCHANGED <<mounted, mounts, navigated, session, sessionLoading, pushState,
                 commitMessage, sessionFetches, pushFetches, signFetches>>
  /\ UNCHANGED routeVars

\* selection after handleOwnerChange(owner)
OwnerChangeSelection(sel, owner) ==
  IF owner = "" THEN NullSelection
  ELSE Sel(owner, "", selectedBranch(sel))

\* pushState after handleOwnerChange(owner)
OwnerChangePushState(ps, owner) == IF owner = "" THEN ps ELSE Idle

\* handleOwnerChange(owner), and the commit that follows it
OwnerChangeCall ==
  /\ \E owner \in Owners \cup {""} :
       /\ selection' = OwnerChangeSelection(selection, owner)
       /\ pushState' = OwnerChangePushState(pushState, owner)
       /\ lastOp' = Op("handleOwnerChange", owner)
  /\ branchInput' = BranchEffect(selection, selection', branchInput)
  /\ UNCHANGED <<mounted, mounts, navigated, session, sessionLoading, statusLoading,
                 commitMessage, githubConnection, githubConnectionInitialized,
                 sessionFetches, statusFetches, pushFetches, signFetches>>
  /\ UNCHANGED routeVars

\* onOwnerChange of the RepoSelector, while it is rendered
handleOwnerChange == RepoSelectorRendered /\ OwnerChangeCall

\* selection after handleRepoChange(repo)
RepoChangeSelectionNoOwnerCheck(sel, repo) ==
  IF repo = ""
    THEN IF sel.isNull THEN sel ELSE [sel EXCEPT !.repo = ""]
    ELSE [isNull |-> FALSE, owner |-> sel.owner, repo |-> repo, branch |-> selectedBranch(sel)]

RepoChangeSelection(sel, repo) ==
  IF repo = ""
    THEN IF sel.isNull THEN sel ELSE [sel EXCEPT !.repo = ""]
    ELSE IF sel.isNull \/ sel.owner = "" THEN sel ELSE [sel EXCEPT !.repo = repo]

\* pushState after handleRepoChange(repo)
RepoChangePushState(ps, repo) == IF repo = "" THEN ps ELSE Idle

\* handleRepoChange(repo), and the commit that follows it
RepoChangeCall ==
  /\ \E repo \in Repos \cup {""} :
       /\ selection' = RepoChangeSelection(selection, repo)
       /\ pushState' = RepoChangePushState(pushState, repo)
       /\ lastOp' = Op("handleRepoChange", repo)
  /\ branchInput' = BranchEffect(selection, selection', branchInput)
  /\ UNCHANGED <<mounted, mounts, navigated, session, sessionLoading, statusLoading,
                 commitMessage, githubConnection, githubConnectionInitialized,
                 sessionFetches, statusFetches, pushFetches, signFetches>>
  /\ UNCHANGED routeVars

\* onRepoChange of the RepoSelector, while it is rendered
handleRepoChange == RepoSelectorRendered /\ RepoChangeCall

\* handleBranchInputChange(event), and the commit that follows it
BranchInputChangeCall ==
  /\ \E text \in Branches \cup {""} :
       /\ selection' = IF selection.isNull THEN selection
                       ELSE [selection EXCEPT !.branch = OrElse(text, "main")]
       /\ branchInput' = BranchEffect(selection, selection', OrElse(text, "main"))
       /\ lastOp' = Op("handleBranchInputChange", "")
  /\ pushState' = Idle
  /\ UNCHANGED <<mounted, mounts, navigated, session, sessionLoading, statusLoading,
                 commitMessage, githubConnection, githubConnectionInitialized,
                 sessionFetches, statusFetches, pushFetches, signFetches>>
  /\ UNCHANGED routeVars

\* onChange of the branch input, while the push panel is rendered
handleBranchInputChange == PushPanelRendered /\ BranchInputChangeCall

\* the onChange of the commit message input
commitMessageChange ==
  /\ PushPanelRendered
  /\ \E text \in CommitTexts :
       /\ commitMessage' = text
       /\ lastOp' = Op("commitMessageChange", "")
  /\ pushState' = Idle
  /\ UNCHANGED <<mounted, mounts, navigated, session, sessionLoading, statusLoading,
                 branchInput, selection, githubConnection, githubConnectionInitialized,
                 sessionFetches, statusFetches, pushFetches, signFetches>>
  /\ UNCHANGED routeVars

\* if (!selection?.owner || !selection.repo) return
PushStartsWithOwnerOnly(sel) == ~sel.isNull /\ sel.owner # ""

PushStarts(sel) == HasOwnerAndRepo(sel)

\* handlePushToGitHub() up to its fetch
PushToGitHubCall ==
  /\ pushFetches.cur < MaxInFlight
  /\ IF ~PushStarts(selection)
       THEN UNCHANGED <<pushState, pushFetches>>
       ELSE /\ pushState' = Loading
            /\ pushFetches' = [pushFetches EXCEPT !.cur = pushFetches.cur + 1]
  /\ lastOp' = Op("handlePushToGitHub", "")
  /\ UNCHANGED <<mounted, mounts, navigated, session, sessionLoading, statusLoading,
                 branchInput, commitMessage, selection, githubConnection,
                 githubConnectionInitialized, sessionFetches, statusFetches, signFetches>>
  /\ UNCHANGED routeVars

\* onClick of the Push button: rendered in the push panel, disabled while loading
handlePushToGitHub ==
  /\ PushPanelRendered
  /\ pushState.status # "loading"
  /\ PushToGitHubCall

PushOutcomes == {"noChanges", "summary", "plain", "notOkError", "notOkPlain", "thrown"}

\* pushState after /api/github/push settles
PushResult(outcome) ==
  CASE outcome = "noChanges" ->
         [status |-> "success", message |-> "No changes detected - repository already up to date."]
    [] outcome = "summary" ->
         [status |-> "success", message |-> "Pushed to branch b, commit c"]
    [] outcome = "plain" ->
         [status |-> "success", message |-> "Pushed changes to GitHub."]
    [] outcome = "notOkError" ->
         [status |-> "error", message |-> "data.error"]
    [] outcome = "notOkPlain" ->
         [status |-> "error", message |-> "Failed to push changes to GitHub"]
    [] OTHER ->
         [status |-> "error", message |-> "error.message"]

PushSettles ==
  /\ HeaderAlive
  /\ pushFetches.cur > 0
  /\ \E outcome \in PushOutcomes :
       /\ pushState' = PushResult(outcome)
       /\ lastOp' = Op("pushSettles", "")
  /\ pushFetches' = [pushFetches EXCEPT !.cur = pushFetches.cur - 1]
  /\ UNCHANGED <<mounted, mounts, navigated, session, sessionLoading, statusLoading,
                 branchInput, commitMessage, selection, githubConnection,
                 githubConnectionInitialized, sessionFetches, statusFetches, signFetches>>
  /\ UNCHANGED routeVars

\* handleSignOut up to its fetch
handleSignOut ==
  /\ SignOutRendered
  /\ signFetches.signOut < 1
  /\ signFetches' = [signFetches EXCEPT !.signOut = 1]
  /\ lastOp' = Op("handleSignOut", "")
  /\ UNCHANGED <<mounted, mounts, navigated, session, sessionLoading, statusLoading,
                 pushState, branchInput, commitMessage, selection, githubConnection,
                 githubConnectionInitialized, sessionFetches, statusFetches, pushFetches>>
  /\ UNCHANGED routeVars

\* fetch rejects ("thrown"), the response is not ok ("notOk"), the response
\* is ok but response.json() rejects ("badJson"), or all of it succeeds ("ok")
SignOutcomes == {"ok", "notOk", "badJson", "thrown"}

\* the try block of handleSignOut reaches its setters: skips the response.ok test
SignOutSucceedsWithoutOkCheck(outcome) == outcome \in {"ok", "notOk"}

\* the try block of handleSignOut reaches setSelection(null)
SignOutSucceeds(outcome) == outcome = "ok"

\* /api/auth/signout settles; the handler uses only atoms and window
SignOutSettles ==
  /\ ~navigated
  /\ signFetches.signOut > 0
  /\ signFetches' = [signFetches EXCEPT !.signOut = 0]
  /\ \E outcome \in SignOutcomes :
       /\ lastOp' = Op("signOutSettles", outcome)
       /\ IF SignOutSucceeds(outcome)
            THEN /\ selection' = NullSelection
                 /\ githubConnection' = Disconnected
                 /\ navigated' = TRUE
                 /\ branchInput' = IF mounted
                                     THEN BranchEffect(selection, NullSelection, branchInput)
                                     ELSE branchInput
            ELSE UNCHANGED <<selection, githubConnection, navigated, branchInput>>
  /\ UNCHANGED <<mounted, mounts, session, sessionLoading, statusLoading,
                 pushState, commitMessage, githubConnectionInitialized,
                 sessionFetches, statusFetches, pushFetches>>
  /\ UNCHANGED routeVars

\* handleSignIn up to its fetch
handleSignIn ==
  /\ SignInRendered
  /\ signFetches.signIn < 1
  /\ signFetches' = [signFetches EXCEPT !.signIn = 1]
  /\ lastOp' = Op("handleSignIn", "")
  /\ UNCHANGED <<mounted, mounts, navigated, session, sessionLoading, statusLoading,
                 pushState, branchInput, commitMessage, selection, githubConnection,
                 githubConnectionInitialized, sessionFetches, statusFetches, pushFetches>>
  /\ UNCHANGED routeVars

\* /api/auth/signin/vercel settles: the page is left, or an alert is shown
SignInSettles ==
  /\ ~navigated
  /\ signFetches.signIn > 0
  /\ signFetches' = [signFetches EXCEPT !.signIn = 0]
  /\ \E outcome \in SignOutcomes :
       /\ lastOp' = Op("signInSettles", outcome)
       /\ navigated' = (outcome = "ok")
  /\ UNCHANGED <<mounted, mounts, session, sessionLoading, statusLoading,
                 pushState, branchInput, commitMessage, selection, githubConnection,
                 githubConnectionInitialized, sessionFetches, statusFetches, pushFetches>>
  /\ UNCHANGED routeVars

handleConnectGitHub ==
  /\ ConnectRendered
  /\ navigated' = TRUE
  /\ lastOp' = Op("handleConnectGitHub", "")
  /\ UNCHANGED <<mounted, mounts, session, sessionLoading, statusLoading,
                 pushState, branchInput, commitMessage, selection, githubConnection,
                 githubConnectionInitialized, sessionFetches, statusFetches,
                 pushFetches, signFetches>>
  /\ UNCHANGED routeVars

HeaderNext ==
  \/ Mount
  \/ Unmount
  \/ SessionSettles
  \/ StatusSettles
  \/ handleOwnerChange
  \/ handleRepoChange
  \/ handleBranchInputChange
  \/ commitMessageChange
  \/ handlePushToGitHub
  \/ PushSettles
  \/ handleSignOut
  \/ SignOutSettles
  \/ handleSignIn
  \/ SignInSettles
  \/ handleConnectGitHub

\* ========================================================================
\* Specifications
\* ========================================================================
\* the route before its first request, on a server whose V0_API_KEY is
\* unset, empty or set; no header is on the page
RouteInit ==
  /\ pc = "idle"
  /\ request = NoRequest
  /\ env \in EnvValues
  /\ calls = <<>>
  /\ results = <<>>
  /\ found = Absent
  /\ detail = NoDetail
  /\ response = NoResponse
  /\ failure = "none"
  /\ mounted = FALSE
  /\ mounts = 0
  /\ navigated = FALSE
  /\ session = "null"
  /\ sessionLoading = TRUE
  /\ statusLoading = TRUE
  /\ pushState = Idle
  /\ branchInput = "main"
  /\ commitMessage = DefaultCommitMessage
  /\ selection = NullSelection
  /\ githubConnection = Disconnected
  /\ githubConnectionInitialized = FALSE
  /\ sessionFetches = NoFetches
  /\ statusFetches = NoStatusFetches
  /\ pushFetches = NoFetches
  /\ signFetches = NoSignFetches
  /\ lastOp = Op("none", "")

\* the page before AppHeader mounts: the atoms are global and hold
\* whatever the page left in them; no request is at the route
HeaderInit ==
  /\ mounted = FALSE
  /\ mounts = 0
  /\ navigated = FALSE
  /\ session = "null"
  /\ sessionLoading = TRUE
  /\ statusLoading = TRUE
  /\ pushState = Idle
  /\ branchInput = "main"
  /\ commitMessage = DefaultCommitMessage
  /\ selection \in Selections
  /\ githubConnection \in {Disconnected, [connected |-> TRUE, username |-> "octo"]}
  /\ githubConnectionInitialized \in BOOLEAN
  /\ sessionFetches = NoFetches
  /\ statusFetches = NoStatusFetches
  /\ pushFetches = NoFetches
  /\ signFetches = NoSignFetches
  /\ lastOp = Op("none", "")
  /\ pc = "idle"
  /\ request = NoRequest
  /\ env = "key"
  /\ calls = <<>>
  /\ results = <<>>
  /\ found = Absent
  /\ detail = NoDetail
  /\ response = NoResponse
  /\ failure = "none"

SpecRoute == RouteInit /\ [][RouteNext]_vars

SpecHeader == HeaderInit /\ [][HeaderNext]_vars

\* the handlers called directly, in any order and with any argument, on a
\* header that is mounted, signed in and connected, from a null selection
CallsInit ==
  /\ mounted = TRUE
  /\ mounts = 1
  /\ navigated = FALSE
  /\ session = "user"
  /\ sessionLoading = FALSE
  /\ statusLoading = FALSE
  /\ pushState = Idle
  /\ branchInput = "main"
  /\ commitMessage = DefaultCommitMessage
  /\ selection = NullSelection
  /\ githubConnection = [connected |-> TRUE, username |-> "octo"]
  /\ githubConnectionInitialized = TRUE
  /\ sessionFetches = NoFetches
  /\ statusFetches = NoStatusFetches
  /\ pushFetches = NoFetches
  /\ signFetches = NoSignFetches
  /\ lastOp = Op("none", "")
  /\ pc = "idle"
  /\ request = NoRequest
  /\ env = "key"
  /\ calls = <<>>
  /\ results = <<>>
  /\ found = Absent
  /\ detail = NoDetail
  /\ response = NoResponse
  /\ failure = "none"

CallsNext ==
  \/ OwnerChangeCall
  \/ RepoChangeCall
  \/ BranchInputChangeCall
  \/ PushToGitHubCall
  \/ PushSettles

SpecCalls == CallsInit /\ [][CallsNext]_vars

\* every started fetch eventually completes
FairHeader ==
  /\ SpecHeader
  /\ WF_vars(SessionSettles)
  /\ WF_vars(StatusSettles)
\* ========================================================================
\* Properties of route.ts (checked under SpecRoute)
\* ========================================================================
Responded == pc = "done"
IsErrorResponse(status) ==
  /\ response.kind = "json"
  /\ response.status = status
  /\ "error" \in DOMAIN response.body

HasCall(op) == \E i \in 1..Len(calls) : calls[i].op = op
SdkReturnedStream == \E i \in 1..Len(results) : results[i] = "stream"

\* C1: a POST whose action is neither "create" nor "send" (a missing action
\* included) is answered 400 with an error body, whatever the other fields
\* of the body and whether or not V0_API_KEY is set.
C1_InvalidActionIs400 ==
  (/\ Responded
   /\ request.method = "POST"
   /\ request.bodyKind = "object"
   /\ request.action \notin {"create", "send"})
  => IsErrorResponse(400)

\* C2: a POST "send" in which chatId or message is missing or empty is
\* answered 400 with an error body, whether or not V0_API_KEY is set.
C2_SendWithoutFieldsIs400 ==
  (/\ Responded
   /\ request.method = "POST"
   /\ request.bodyKind = "object"
   /\ request.action = "send"
   /\ (Falsy(request.chatId) \/ Falsy(request.message)))
  => IsErrorResponse(400)

\* C3: a caught failure is answered 500 exactly when it is the failure of
\* getV0Client (V0_API_KEY missing); an error thrown by an SDK call or by
\* reading the body is answered 400.
C3_Status500IffKeyMissing ==
  (Responded /\ failure \in {"config", "sdk", "body"})
  => /\ failure = "config" => IsErrorResponse(500)
     /\ failure # "config" => IsErrorResponse(400)

\* C4: a GET whose chatId parameter is absent or empty is answered 400 with
\* an error body, whether or not V0_API_KEY is set.
C4_GetWithoutChatIdIs400 ==
  (/\ Responded
   /\ request.method = "GET"
   /\ Falsy(request.chatId))
  => IsErrorResponse(400)

C4_Witness ==
  /\ Responded
  /\ request.method = "GET"
  /\ request.chatId = ""
  /\ env = Undefined
  /\ IsErrorResponse(400)

\* C5: when chats.create or chats.sendMessage returns a ReadableStream the
\* POST is answered 400 with the rejection message of that action, and a
\* create makes no chats.getById call afterwards.
C5_StreamRejected ==
  (Responded /\ SdkReturnedStream)
  => /\ IsErrorResponse(400)
     /\ response.body.error[1] =
          (IF request.action = "create"
             THEN "Streaming response not supported. Please use standard chat creation."
             ELSE "Streaming response not supported. Please use standard message sending.")
     /\ ~HasCall("getById")

C5_Witness ==
  /\ Responded
  /\ request.action = "create"
  /\ results = <<"stream">>
  /\ calls[1].op = "create"
  /\ IsErrorResponse(400)

\* C6: every GET or POST ends with a JSON response, whatever the request
\* and however each SDK call settles: a handler that has not responded can
\* always take its next step, what it produces is a response and never an
\* escaped exception, the status is 200, 400 or 500, and every response
\* other than 200 carries an error field.
C6_AlwaysJsonResponse ==
  /\ pc \notin {"idle", "done"} => (response = NoResponse /\ ENABLED RouteNext)
  /\ Responded =>
       /\ response.kind = "json"
       /\ response.status \in {200, 400, 500}
       /\ response.status # 200 => "error" \in DOMAIN response.body

C6_Witness ==
  /\ Responded
  /\ request.method = "POST"
  /\ results = <<"chat", "throw">>
  /\ failure = "sdk"
  /\ response.body.error = PostDefaultMessage
  /\ IsErrorResponse(400)

\* ========================================================================
\* Properties of app-header.tsx (checked under SpecHeader and FairHeader)
\* ========================================================================
StatusOps == {"fetchGitHubStatus:live", "fetchGitHubStatus:cleaned", "fetchGitHubStatus:orphan"}
EditOps == {"handleOwnerChange", "handleRepoChange", "handleBranchInputChange",
            "commitMessageChange"}

\* C7: the selection is null after a status fetch that settled as
\* disconnected (connected false, non-ok, thrown), after a session fetch that
\* settled without a user, and after a sign-out that succeeded; and in
\* every state with statusLoading false and the connection not connected.
C7_DisconnectClearsSelection ==
  /\ (lastOp.name \in StatusOps /\ lastOp.arg \in {"disconnected", "notOk", "thrown"})
       => selection = NullSelection
  /\ (lastOp.name = "fetchSession" /\ lastOp.arg \in {"anon", "notOk", "thrown"})
       => selection = NullSelection
  /\ lastOp = Op("signOutSettles", "ok") => selection = NullSelection
  /\ (~statusLoading /\ ~githubConnection.connected) => selection = NullSelection

\* a request of an effect run that was cleaned up fails after the user
\* had been shown the selector by a later run
C7_Witness ==
  /\ lastOp = Op("fetchGitHubStatus:cleaned", "thrown")
  /\ HeaderAlive
  /\ HasUser(session)
  /\ ~statusLoading
  /\ ~githubConnection.connected
  /\ statusFetches.live = 0
  /\ selection = NullSelection

\* C8: pushState.status becomes loading only when a push is started, and
\* becomes success or error only from loading.
C8_PushStatusMachine ==
  [][/\ (pushState'.status = "loading" /\ pushState.status # "loading")
          => pushFetches'.cur = pushFetches.cur + 1
     /\ (pushState'.status \in {"success", "error"} /\ pushState' # pushState)
          => pushState.status = "loading"]_vars

\* C9: after the owner, repo, branch or commit message handler has run,
\* with any argument, pushState is idle without a message.
C9_EditResetsPushState ==
  lastOp.name \in EditOps => pushState = Idle

\* C10: with every started fetch completing, a mounted header leaves
\* sessionLoading, and with a user it leaves statusLoading; a session
\* fetch that failed leaves session null and a status fetch that failed
\* leaves the connection disconnected.
C10_LoadingEnds ==
  /\ (HeaderAlive /\ sessionLoading) ~> (~sessionLoading \/ ~HeaderAlive)
  /\ (HeaderAlive /\ HasUser(session) /\ statusLoading) ~> (~statusLoading \/ ~HeaderAlive)
  /\ []((lastOp.name = "fetchSession" /\ lastOp.arg \in {"notOk", "thrown"})
          => (session = "null" /\ ~sessionLoading))
  /\ []((lastOp.name = "fetchSession" /\ lastOp.arg \in {"user", "anon"})
          => (session = lastOp.arg /\ ~sessionLoading))
  /\ []((lastOp.name \in {"fetchGitHubStatus:live", "fetchGitHubStatus:cleaned"})
          => (~statusLoading /\ githubConnection.connected = (lastOp.arg = "connected")))

C10_Witness ==
  /\ lastOp = Op("fetchGitHubStatus:live", "notOk")
  /\ HeaderAlive
  /\ HasUser(session)
  /\ ~sessionLoading
  /\ ~statusLoading
  /\ ~githubConnection.connected
\* ========================================================================
\* Properties of the handlers called directly (checked under SpecCalls)
\* ========================================================================
\* C11: whatever owner, repo and branch changes are made from a null
\* selection, a selection with a repo has an owner; an owner change leaves
\* the repo empty, and a repo change made without an owner leaves the
\* selection as it was.
C11_OwnerBeforeRepo ==
  /\ []((~selection.isNull /\ selection.repo # "") => selection.owner # "")
  /\ [][lastOp'.name = "handleOwnerChange" => selection'.repo = ""]_vars
  /\ [][(lastOp'.name = "handleRepoChange" /\ (selection.isNull \/ selection.owner = ""))
          => selection' = selection]_vars

C11_Witness ==
  /\ lastOp = Op("handleRepoChange", "shop")
  /\ selection = NullSelection

\* C20: handlePushToGitHub called while the selection is null or lacks an
\* owner or a repo sends no request and leaves pushState, selection,
\* branchInput and commitMessage as they were.
C20_PushWithoutTargetIsNoOp ==
  [][(lastOp'.name = "handlePushToGitHub" /\ ~HasOwnerAndRepo(selection))
       => /\ pushFetches' = pushFetches
          /\ pushState' = pushState
          /\ selection' = selection
          /\ branchInput' = branchInput
          /\ commitMessage' = commitMessage]_vars

C20_Witness ==
  /\ lastOp = Op("handlePushToGitHub", "")
  /\ selection = Sel("acme", "", "dev")
  /\ pushFetches.cur = 0
  /\ pushState = Idle
\* ========================================================================
\* Further properties of route.ts (checked under SpecRoute)
\* ========================================================================
GetSucceeded == Responded /\ request.method = "GET" /\ response.status = 200
IsCreate == request.method = "POST" /\ request.bodyKind = "object" /\ request.action = "create"
NonEmpty(v) == v \notin {Undefined, Null, ""}

\* C12: a GET answered 200 has made exactly chats.getById and then
\* chats.findMessages with limit 50, both for the requested chatId; its
\* body has exactly chatId, webUrl, apiUrl, shareable, privacy and
\* messages; messages is empty when the SDK returned no data and otherwise
\* holds the returned messages reduced to id, role, content and
\* createdAt; a GET in which an SDK call threw returns only an error.
C12_GetShape ==
  /\ GetSucceeded =>
       /\ calls = <<[op |-> "getById", chatId |-> request.chatId],
                    [op |-> "findMessages", chatId |-> request.chatId, limit |-> 50]>>
       /\ DOMAIN response.body =
            {"chatId", "webUrl", "apiUrl", "shareable", "privacy", "messages"}
       /\ ~found.present => response.body.messages = <<>>
       /\ Len(response.body.messages) <= Len(found.list)
       /\ \A i \in 1..Len(response.body.messages) :
            response.body.messages[i] =
              [id |-> found.list[i].id, role |-> found.list[i].role,
               content |-> found.list[i].content, createdAt |-> found.list[i].createdAt]
  /\ (Responded /\ request.method = "GET" /\ (\E i \in 1..Len(results) : results[i] = "throw"))
       => (response.status # 200 /\ DOMAIN response.body = {"error"})

C12_Witness ==
  /\ GetSucceeded
  /\ found.present
  /\ Len(found.list) = 2
  /\ Len(response.body.messages) = 2

\* C13: for a POST "create" the message given to chats.create is the
\* request's message when that is non-empty and "Hello!" otherwise, the
\* system text is the request's when non-empty and the default otherwise,
\* and the request is never answered by a validation error.
C13_CreateDefaults ==
  (IsCreate /\ pc # "start") =>
     /\ failure # "validation"
     /\ ~Falsy(env) =>
          /\ Len(calls) >= 1
          /\ calls[1] =
               [op |-> "create",
                message |-> IF NonEmpty(request.message) THEN request.message ELSE "Hello!",
                system |-> IF NonEmpty(request.system) THEN request.system
                           ELSE "You are a helpful coding assistant.",
                responseMode |-> "sync"]

C13_Witness ==
  /\ IsCreate
  /\ pc = "POST:create"
  /\ request.message = ""
  /\ request.system = Undefined
  /\ request.chatId = Undefined
  /\ calls[1].message = "Hello!"

\* the requests that GET and POST reject by validation
FailsValidation ==
  \/ request.method = "GET" /\ ~NonEmpty(request.chatId)
  \/ /\ request.method = "POST"
     /\ request.bodyKind = "object"
     /\ \/ request.action \notin {"create", "send"}
        \/ request.action = "send" /\ (~NonEmpty(request.chatId) \/ ~NonEmpty(request.message))

\* C17: a request that fails validation never reaches chats.getById,
\* chats.findMessages, chats.create or chats.sendMessage.
C17_NoSdkCallOnInvalid ==
  FailsValidation => calls = <<>>

C17_Witness ==
  /\ Responded
  /\ request.method = "POST"
  /\ request.action = "send"
  /\ request.chatId = "c1"
  /\ request.message = ""
  /\ env = "key"
  /\ calls = <<>>
  /\ IsErrorResponse(400)
\* ========================================================================
\* Further properties of app-header.tsx (checked under SpecHeader)
\* ========================================================================
StaleStatusOps == {"fetchGitHubStatus:cleaned", "fetchGitHubStatus:orphan"}
DisconnectedArgs == {"disconnected", "notOk", "thrown"}

\* C14: a status response that arrives for an effect run that was cleaned
\* up (by unmount or by a change of session user) changes none of
\* selection, githubConnection, statusLoading, githubConnectionInitialized.
C14_StaleStatusIgnored ==
  [][lastOp'.name \in StaleStatusOps
       => /\ selection' = selection
          /\ githubConnection' = githubConnection
          /\ statusLoading' = statusLoading
          /\ githubConnectionInitialized' = githubConnectionInitialized]_vars

\* C15: a status request of the current effect run exists only with a
\* session user; while the mounted header has no session user there is no
\* such request, statusLoading is false, the connection is not connected
\* and the selection is null.
C15_AnonymousHasNoStatus ==
  /\ statusFetches.live > 0 => HasUser(session)
  /\ (HeaderAlive /\ ~HasUser(session))
       => /\ statusFetches.live = 0
          /\ ~statusLoading
          /\ ~githubConnection.connected
          /\ selection = NullSelection

\* C16: at most one request to /api/github/push is in flight.
C16_OnePushInFlight ==
  pushFetches.cur <= 1

\* C18: githubConnectionInitialized becomes true only when the session
\* fetch is no longer pending and, with a session user, only by a status
\* fetch that has settled.
C18_InitializedWhenKnown ==
  [][(~githubConnectionInitialized /\ githubConnectionInitialized')
       => /\ ~sessionLoading'
          /\ HasUser(session') => lastOp'.name \in StatusOps]_vars

\* C19: a selection is cleared only by a status fetch that settled as
\* disconnected, by a session that settled without a user, by a sign-out
\* that succeeded or by choosing the empty owner; mounting the header
\* leaves the selection of the atom as it is.
C19_SelectionClearedOnlyBy ==
  [][(selection # NullSelection /\ selection' = NullSelection)
       => \/ lastOp'.name \in StatusOps /\ lastOp'.arg \in DisconnectedArgs
          \/ lastOp'.name = "fetchSession" /\ lastOp'.arg \in {"anon", "notOk", "thrown"}
          \/ lastOp' = Op("signOutSettles", "ok")
          \/ lastOp' = Op("handleOwnerChange", "")]_vars
\* C21: a sign-out whose request fails (fetch thrown, response not ok, or
\* a body that cannot be parsed) leaves selection, githubConnection and
\* session as they were and does not navigate; a sign-out whose request
\* succeeds sets selection to null and githubConnection to disconnected,
\* keeps session and navigates.
C21_SignOutFailureKeepsState ==
  /\ [][(lastOp'.name = "signOutSettles" /\ lastOp'.arg # "ok")
          => /\ selection' = selection
             /\ githubConnection' = githubConnection
             /\ session' = session
             /\ navigated' = navigated]_vars
  /\ [][lastOp' = Op("signOutSettles", "ok")
          => /\ selection' = NullSelection
             /\ githubConnection' = Disconnected
             /\ session' = session
             /\ navigated']_vars

\* a failed sign-out has settled while a repository was selected and
\* GitHub was connected
C21_Witness ==
  /\ lastOp.name = "signOutSettles"
  /\ lastOp.arg \in {"notOk", "thrown"}
  /\ selection # NullSelection
  /\ githubConnection.connected
  /\ HasUser(session)
  /\ ~navigated
====
